---------------------------- MODULE Spec2Model ----------------------------
(***************************************************************************)
(* Model of the bulletin-board server of src/server.py (class Server).     *)
(*                                                                         *)
(* One worker thread per accepted connection runs open_connection: the     *)
(* handshake (read of client_ids, add_clients_groups, broadcast_client_join*)
(* and the "id ..." reply) followed by the dispatch loop.  Code that runs  *)
(* inside "with self.lock" is one atomic action; code that runs outside    *)
(* the lock (the read of client_ids, handle_message, the exit branch) is   *)
(* split at the points where another thread can interleave.                *)
(*                                                                         *)
(* A request is read from the socket outside the lock and its handler runs *)
(* later; the only shared state that can change in between and that the    *)
(* read itself depends on is the socket, so "recv + handler" is one action *)
(* that is also enabled when the socket has meanwhile been closed by       *)
(* another thread.                                                         *)
(***************************************************************************)
EXTENDS Integers, Sequences, FiniteSets, TLC

(***************************************************************************)
(* Bounds of the model.                                                    *)
(***************************************************************************)
\* number of connections accepted during the server run (one thread each)
MaxConns == 2
\* number of requests the dispatch loops read during the server run
MaxReqs == 4
\* number of messages in the boards file of the previous run
LoadedMsgs == 3

Threads == 1..MaxConns
\* usernames that connect during the run
Names == {"alice", "bob"}
\* a username of the previous run, found in the persisted files
SavedName == "carol"
AllNames == Names \cup {SavedName}
GroupNames == {"default", "club"}
\* groups of the previous run that nobody names in this run
SavedGroups == {"book", "chess", "film", "music", "news"}
Subjects == {"s1"}
Words == {"w"}
\* the value of datetime.datetime.now().date() during the run, and the date
\* of the previous run
Today == "today"
SavedDate == "earlier"

\* digit strings and the integer int() gives for them
DigitVal == ("0" :> 0) @@ ("1" :> 1) @@ ("2" :> 2) @@ ("3" :> 3) @@ ("4" :> 4)
            @@ ("5" :> 5) @@ ("6" :> 6) @@ ("7" :> 7) @@ ("8" :> 8) @@ ("9" :> 9)
\* message id tokens a client sends: the ids a board can hold, one past, and a
\* token that is not a number
IdTokens == {d \in DOMAIN DigitVal : DigitVal[d] <= LoadedMsgs} \cup {"x"}

VARIABLES
    client_ids,         \* self.client_ids
    connected_clients,  \* self.connected_clients: dict in insertion order,
                        \*   a sequence of [id, name, sock] (the "group" field
                        \*   of an entry is never read)
    groups,             \* self.groups: group name -> list of usernames
    boards,             \* self.boards: group name -> (message id -> message)
    sockState,          \* per connection: "open", "closed" (the server called
                        \*   close()), "peer_closed" (the client went away),
                        \*   "stalled" (the client has stopped reading and
                        \*   the send buffer is full)
    pc,                 \* per thread: position in open_connection
    local,              \* per thread: client_name, client_group, client_id
    req,                \* per thread: handle_message's arguments and locals
    last,               \* outcome of the most recent handler run
    joinPoint,          \* history: len(boards[g]) at the latest join of a
                        \*   current member, -1 for a username that is none
                        \*   or that joined in the previous run
    hasLeft,            \* history: the usernames that have left each group
    posted,             \* history: number of successful posts per group
    files,              \* groups.json and boards.json as this run's
                        \*   server_shutdown has written them so far
    sent,               \* the socket writes of the most recent step: how many
                        \*   each socket accepted, and the socket whose
                        \*   send raised or does not return (0: none)
    iter,               \* per thread: the dict iterator of the broadcast loop
                        \*   the thread is in: len(dict) when it was created
                        \*   and the number of entries it has returned
    nreq                \* number of requests read so far

vars == <<client_ids, connected_clients, groups, boards, sockState, pc, local,
          req, last, joinPoint, hasLeft, posted, files, sent, iter, nreq>>

shared == <<client_ids, connected_clients, groups, boards>>

(***************************************************************************)
(* Helpers: Python list / dict operations used by the server.              *)
(***************************************************************************)
Range(s) == {s[i] : i \in 1..Len(s)}

\* list.remove(x): removes the first occurrence
RemoveFirst(s, x) ==
    LET i == CHOOSE k \in 1..Len(s) : s[k] = x /\ \A j \in 1..(k-1) : s[j] # x
    IN  SubSeq(s, 1, i-1) \o SubSeq(s, i+1, Len(s))

EmptyBoard == [i \in {} |-> 0]

\* key in self.connected_clients
HasId(cc, id) == \E i \in 1..Len(cc) : cc[i].id = id
IdxOf(cc, id) == CHOOSE i \in 1..Len(cc) : cc[i].id = id
\* self.connected_clients[id]
Entry(cc, id) == cc[IdxOf(cc, id)]
\* self.connected_clients[id] = e : an existing key keeps its position
PutEntry(cc, e) ==
    IF HasId(cc, e.id) THEN [cc EXCEPT ![IdxOf(cc, e.id)] = e] ELSE Append(cc, e)
\* self.connected_clients.pop(id)
PopEntry(cc, id) == SelectSeq(cc, LAMBDA e : e.id # id)

\* the sockets of registry entries, in the order a loop over
\* self.connected_clients.items() visits them
SockSeq(entries) == [i \in 1..Len(entries) |-> entries[i].sock]

\* how many of the sends in `order` each socket accepted
Accepted(order) ==
    [s \in Threads |-> Cardinality({i \in 1..Len(order) : order[i] = s})]

NoWrites == [ok |-> Accepted(<<>>), failed |-> 0]

\* no file written yet; phase is where the main thread is: "running",
\* "groups" (groups.json written, line 41), "down" (boards.json written and
\* sys.exit called, lines 43-45), "restarted" (server_startup of the next run)
NoFiles == [phase |-> "running", groups |-> <<>>, boards |-> <<>>]

NoIter == [used |-> -1, pos |-> 0]
NoReq == [group |-> "", name |-> "", sock |-> 0]
NoLocal == [name |-> "", group |-> "", id |-> -1]
NoText == <<>>

\* what a step reports: the username the handler resolved from the registry,
\* the group and message id token it was called with, the message id it
\* assigned (post) and the message fields it returned (message)
Info(name, group, id, mid, text) ==
    [name |-> name, group |-> group, id |-> id, mid |-> mid, text |-> text]
NoInfo == Info("", "", "", -1, NoText)
\* a KeyError: the group the handler was called with
KeyInfo(g) == Info("", g, "", -1, NoText)

\* a message record that keeps only its sender as the member snapshot:
\* a deviation from lines 296-302 against which C7 is measured
NewMessageOwnSnapshot(sender, date, subject, body, members) ==
    [sender |-> sender, date |-> date, subject |-> subject, message |-> body,
     users_at_time_of_posting |-> <<sender>>]

\* a message record whose snapshot is the group's other members: a
\* deviation from line 301 against which C25 is measured
NewMessageOthersSnapshot(sender, date, subject, body, members) ==
    [sender |-> sender, date |-> date, subject |-> subject, message |-> body,
     users_at_time_of_posting |-> SelectSeq(members, LAMBDA m : m # sender)]

\* the record stored at lines 296-302; copy.deepcopy gives the message its
\* own list, a value that later changes of self.groups[group] do not reach
NewMessage(sender, date, subject, body, members) ==
    [sender |-> sender, date |-> date, subject |-> subject, message |-> body,
     users_at_time_of_posting |-> members]

\* Server.__init__, lines 23-24: no persisted files
FreshState ==
    [groups |-> ("default" :> <<>>), boards |-> ("default" :> EmptyBoard)]

\* server_startup, lines 57-65: groups.json and boards.json as server_shutdown
\* wrote them after a run in which SavedName posted LoadedMsgs messages and
\* the groups SavedGroups were created and left
SavedState ==
    [groups |-> ("default" :> <<SavedName>>) @@ [g \in SavedGroups |-> <<>>],
     boards |-> ("default" :> [i \in 0..(LoadedMsgs - 1) |->
                    NewMessage(SavedName, SavedDate, "s1", <<"w">>, <<SavedName>>)])
                @@ [g \in SavedGroups |-> EmptyBoard]]

\* server_startup, lines 56-63, when groups.json exists and boards.json does
\* not: the previous run, in which SavedName had connected with the group
\* club and the group book had been created and left, was killed between
\* the two writes of server_shutdown (lines 40-43), so self.boards keeps the
\* value of __init__ (line 24)
OrphanState ==
    [groups |-> ("default" :> <<>>) @@ ("club" :> <<SavedName>>) @@ ("book" :> <<>>),
     boards |-> ("default" :> EmptyBoard)]

(***************************************************************************)
(* Server.__init__ and server_startup up to the accept loop.               *)
(***************************************************************************)
InitFrom(states) ==
    /\ client_ids = 0
    /\ connected_clients = <<>>
    /\ \E st \in states :
          /\ groups = st.groups
          /\ boards = st.boards
          /\ posted = [g \in GroupNames \cup SavedGroups |->
                          IF g \in DOMAIN st.boards
                          THEN Cardinality(DOMAIN st.boards[g]) ELSE 0]
    /\ nreq = 0
    /\ sockState = [t \in Threads |-> "open"]
    /\ pc = [t \in Threads |-> "idle"]
    /\ local = [t \in Threads |-> NoLocal]
    /\ req = [t \in Threads |-> NoReq]
    /\ last = [t |-> 0, verb |-> "", kind |-> "", info |-> NoInfo]
    /\ joinPoint = [g \in GroupNames |-> [n \in AllNames |-> -1]]
    /\ hasLeft = [g \in GroupNames |-> {}]
    /\ sent = NoWrites
    /\ files = NoFiles
    /\ iter = [t \in Threads |-> NoIter]

\* the first run, or a run that finds both files of the previous shutdown
Init == InitFrom({FreshState, SavedState})

(***************************************************************************)
(* Socket writes.  send() on a socket the server has closed raises; on a   *)
(* socket whose peer went away it may succeed or raise; on a socket whose  *)
(* peer has stopped reading (the sockets are blocking and have no timeout) *)
(* it does not return; otherwise it succeeds.  A handler that writes to    *)
(* the sockets `socks` ends with `okKind` when every write returned, with  *)
(* "OSError" when one raised and with "Blocked" when one does not return.  *)
(***************************************************************************)
Outcome(socks, okKind) ==
    {k \in {okKind, "OSError", "Blocked"} :
        \/ k = okKind /\ \A s \in socks : sockState[s] \notin {"closed", "stalled"}
        \/ k = "OSError" /\ \E s \in socks : sockState[s] \in {"closed", "peer_closed"}
        \/ k = "Blocked" /\ \E s \in socks : sockState[s] = "stalled"}

\* kinds with which a send that does not return ends a step: outside and
\* inside `with self.lock`
BlockedKinds == {"Blocked", "BlockedInLock"}

\* the outcomes of a handler that sends while it holds the lock
OutcomeInLock(socks, okKind) ==
    {IF k = "Blocked" THEN "BlockedInLock" ELSE k : k \in Outcome(socks, okKind)}

\* no thread waits in a send inside `with self.lock`
LockFree == \A u \in Threads : pc[u] \notin {"stuck_in_lock", "iterating"}

\* the writes of a handler that sends to the sockets `order` one after the
\* other and ended with `k`: all of them, or those before the send that
\* raised or does not return
Writes(order, k, okKind) ==
    IF k = okKind
    THEN {[ok |-> Accepted(order), failed |-> 0]}
    ELSE {[ok |-> Accepted(SubSeq(order, 1, i - 1)), failed |-> order[i]] :
             i \in {j \in 1..Len(order) :
                       /\ IF k \in BlockedKinds
                          THEN sockState[order[j]] = "stalled"
                          ELSE sockState[order[j]] \in {"closed", "peer_closed"}
                       /\ \A h \in 1..(j - 1) :
                             sockState[order[h]] \notin {"closed", "stalled"}}}

\* exceptions nothing in open_connection catches: the thread dies
Errors == {"KeyError", "TypeError", "OSError", "RuntimeError"}

\* the thread's position after a step that ended with `kind`
After(kind, nextpc) ==
    IF kind \in Errors THEN "crashed"
    ELSE IF kind = "Blocked" THEN "stuck"
    ELSE IF kind = "BlockedInLock" THEN "stuck_in_lock"
    ELSE nextpc

\* answers that leave the shared state and the thread where they were
Quiet == {"Help", "Users", "Groups", "Invalid", "Already", "NotMember"}

\* `last` records the step just taken: thread, command verb, outcome; of a
\* quiet answer in the loop it keeps the thread and the kind of answer
Step(t, nextpc, verb, kind, info) ==
    /\ pc' = [pc EXCEPT ![t] = After(kind, nextpc)]
    /\ UNCHANGED <<files, iter>>
    /\ last' = IF kind \in Quiet /\ nextpc = "loop"
               THEN [t |-> t, verb |-> "", kind |-> kind, info |-> NoInfo]
               ELSE [t |-> t, verb |-> verb, kind |-> kind, info |-> info]

\* positions at which open_connection has returned or died
Terminal == {"ended", "crashed", "closed"}

\* a step after which the thread's locals are gone when the thread is
Finish(t, nextpc, verb, kind, info) ==
    /\ Step(t, nextpc, verb, kind, info)
    /\ local' = IF After(kind, nextpc) \in Terminal
                THEN [local EXCEPT ![t] = NoLocal] ELSE local

\* sockets of the registry entries a broadcast loop writes to
Socks(cc, P(_)) == {cc[i].sock : i \in {j \in 1..Len(cc) : P(cc[j])}}

(***************************************************************************)
(* open_connection, lines 87-90: the handshake frame is read and           *)
(* client_id = self.client_ids is taken, outside the lock.                 *)
(***************************************************************************)
Connect(t) ==
    /\ pc[t] = "idle"
    \* threads are numbered in the order their handshake frames arrive
    /\ \A u \in Threads : u < t => pc[u] # "idle"
    \* usernames are interchangeable: the first connection is alice's
    /\ \E n \in IF t = 1 THEN {"alice"} ELSE Names, g \in GroupNames :
          local' = [local EXCEPT ![t] = [name |-> n, group |-> g, id |-> client_ids]]
    /\ Step(t, "connected", "connect", "Connected", NoInfo)
    /\ sent' = NoWrites
    /\ UNCHANGED <<shared, sockState, req, joinPoint, hasLeft, posted>>
    /\ UNCHANGED nreq

\* a registration that, for a new group, keeps no other group: a deviation
\* from lines 225-229 against which C17 is measured
GroupsAfterConnectOnly(grps, g, n) ==
    IF g \notin DOMAIN grps THEN (g :> <<n>>)
    ELSE IF n \notin Range(grps[g]) THEN [grps EXCEPT ![g] = Append(@, n)]
    ELSE grps

\* a registration that takes the user out of every other group: a deviation
\* from lines 225-229 against which C22 is measured
GroupsAfterConnectMoving(grps, g, n) ==
    [x \in DOMAIN grps \cup {g} |->
        IF x # g THEN SelectSeq(grps[x], LAMBDA m : m # n)
        ELSE IF g \notin DOMAIN grps THEN <<n>>
        ELSE IF n \notin Range(grps[g]) THEN Append(grps[g], n)
        ELSE grps[g]]

\* a registration that appends without the test of line 228: a deviation
\* against which C23 is measured
GroupsAfterConnectAppending(grps, g, n) ==
    IF g \notin DOMAIN grps THEN grps @@ (g :> <<n>>)
    ELSE [grps EXCEPT ![g] = Append(@, n)]

\* self.groups after add_clients_groups, lines 225-229
GroupsAfterConnect(grps, g, n) ==
    IF g \notin DOMAIN grps THEN grps @@ (g :> <<n>>)
    ELSE IF n \notin Range(grps[g]) THEN [grps EXCEPT ![g] = Append(@, n)]
    ELSE grps

\* a registration that adds blank boards only for the groups that have a
\* member: a deviation from lines 236-238 against which C24 is measured
BoardsAfterConnectOccupied(bds, grps) ==
    [g \in DOMAIN bds \cup {"default"} \cup {x \in DOMAIN grps : grps[x] # <<>>} |->
        IF g \in DOMAIN bds THEN bds[g] ELSE EmptyBoard]

\* self.boards after add_clients_groups, lines 233-238
BoardsAfterConnect(bds, grps) ==
    [g \in DOMAIN bds \cup DOMAIN grps \cup {"default"} |->
        IF g \in DOMAIN bds THEN bds[g] ELSE EmptyBoard]

\* the client id add_clients_groups registers the session under
RegisteredId(t) == local[t].id

(***************************************************************************)
(* add_clients_groups, lines 212-238, under the lock.                      *)
(***************************************************************************)
add_clients_groups(t) ==
    /\ pc[t] = "connected"
    /\ LockFree
    /\ LET n == local[t].name
           g == local[t].group
           grps == GroupsAfterConnect(groups, g, n)
           bds == BoardsAfterConnect(boards, grps)
       IN  /\ client_ids' = client_ids + 1
           /\ connected_clients' = PutEntry(connected_clients,
                  [id |-> RegisteredId(t), name |-> n, sock |-> t])
           /\ groups' = grps
           /\ boards' = bds
           /\ joinPoint' = IF grps # groups
                           THEN [joinPoint EXCEPT ![g][n] = Cardinality(DOMAIN bds[g])]
                           ELSE joinPoint
           /\ Step(t, "registered", "connect", "Registered", Info(n, g, "", -1, NoText))
    /\ sent' = NoWrites
    \* client_group is not read again
    /\ local' = [local EXCEPT ![t].group = ""]
    /\ UNCHANGED <<sockState, req, hasLeft, posted>>
    /\ UNCHANGED nreq

(***************************************************************************)
(* broadcast_client_join, lines 242-251, under the lock.                   *)
(***************************************************************************)
broadcast_client_join(t) ==
    /\ pc[t] = "registered"
    /\ LockFree
    /\ \E k \in OutcomeInLock(Socks(connected_clients, LAMBDA e : e.id # local[t].id),
                        "Announced") :
          /\ Finish(t, "announced", "connect", k, NoInfo)
          /\ sent' \in Writes(SockSeq(SelectSeq(connected_clients,
                                  LAMBDA e : e.id # local[t].id)), k, "Announced")
    /\ UNCHANGED <<shared, sockState, req, joinPoint, hasLeft, posted>>
    /\ UNCHANGED nreq

(***************************************************************************)
(* open_connection, lines 103-110: the "id ..." reply on the own socket.   *)
(***************************************************************************)
\* example_groups = list(self.groups)[0:5], line 103: how many names it holds
ExampleGroups(grps) ==
    IF Cardinality(DOMAIN grps) <= 5 THEN Cardinality(DOMAIN grps) ELSE 5

\* the reply of lines 104-110 as a list of tokens: "id", the session id (kept
\* in the mid field), one "group" per listed name, and "..." when
\* len(example_groups) > 5.  self.groups holds at least the group joined at
\* lines 225-229, so the branch of line 104 is taken.
IdReply(grps) ==
    <<"id">> \o [i \in 1..ExampleGroups(grps) |-> "group"]
             \o (IF ExampleGroups(grps) > 5 THEN <<"...">> ELSE <<>>)

SendId(t) ==
    /\ pc[t] = "announced"
    /\ \E k \in Outcome({t}, "Id") :
          /\ Finish(t, "loop", "connect", k,
                    IF k = "Id" THEN Info("", "", "", local[t].id, IdReply(groups))
                    ELSE NoInfo)
          /\ sent' \in Writes(<<t>>, k, "Id")
    /\ UNCHANGED <<shared, sockState, req, joinPoint, hasLeft, posted>>
    /\ UNCHANGED nreq

(***************************************************************************)
(* The dispatch loop, lines 113-201.  A thread at "loop" has read a        *)
(* request; the request is the input of the action.                        *)
(***************************************************************************)
\* line 114: recv returns a request
Recv(t) ==
    /\ pc[t] = "loop"
    /\ nreq < MaxReqs
    /\ nreq' = nreq + 1

\* a step that answers on the thread's own socket and leaves the shared state alone
Reply(t, nextpc, verb, kind) ==
    /\ \E k \in Outcome({t}, kind) :
          /\ Finish(t, nextpc, verb, k, NoInfo)
          /\ sent' \in Writes(<<t>>, k, kind)
    /\ UNCHANGED <<shared, sockState, req, joinPoint, hasLeft, posted>>

\* an uncaught exception before any write or assignment
Raise(t, verb, error) ==
    /\ Finish(t, "crashed", verb, error, NoInfo)
    /\ sent' = NoWrites
    /\ UNCHANGED <<shared, sockState, req, joinPoint, hasLeft, posted>>

(***************************************************************************)
(* handle_join, lines 253-283, under the lock.                             *)
(***************************************************************************)
handle_join(t, verb, g) ==
    /\ LockFree
    /\ UNCHANGED <<client_ids, connected_clients, sockState, req, hasLeft, posted>>
    /\ IF ~HasId(connected_clients, local[t].id)
       THEN /\ Finish(t, "crashed", verb, "KeyError", NoInfo)
            /\ sent' = NoWrites
            /\ UNCHANGED <<groups, boards, joinPoint>>
       ELSE LET e == Entry(connected_clients, local[t].id)
                name == e.name
                info == Info(name, g, "", -1, NoText)
            IN  IF g \notin DOMAIN groups
                THEN \* lines 258-262
                     /\ groups' = groups @@ (g :> <<name>>)
                     /\ boards' = [x \in DOMAIN boards \cup {g} |->
                                      IF x = g THEN EmptyBoard ELSE boards[x]]
                     /\ joinPoint' = [joinPoint EXCEPT ![g][name] = 0]
                     /\ \E k \in OutcomeInLock({e.sock}, "AddedNew") :
                           /\ Finish(t, "loop", verb, k, info)
                           /\ sent' \in Writes(<<e.sock>>, k, "AddedNew")
                ELSE IF name \in Range(groups[g])
                THEN \* line 265
                     /\ UNCHANGED <<groups, boards, joinPoint>>
                     /\ \E k \in OutcomeInLock({e.sock}, "Already") :
                           /\ Finish(t, "loop", verb, k, info)
                           /\ sent' \in Writes(<<e.sock>>, k, "Already")
                ELSE \* lines 267-283
                     LET grps == [groups EXCEPT ![g] = Append(@, name)]
                         \* `info["name"] is not client_name` compares objects:
                         \* it excludes the acting entry only
                         targets == Socks(connected_clients,
                                          LAMBDA o : o.id # e.id
                                                     /\ o.name \in Range(grps[g]))
                         \* lines 269-271, then the reply of line 283
                         order == SockSeq(SelectSeq(connected_clients,
                                      LAMBDA o : o.id # e.id
                                                 /\ o.name \in Range(grps[g])))
                                  \o <<e.sock>>
                     IN  /\ groups' = grps
                         /\ UNCHANGED boards
                         /\ IF g \in DOMAIN boards
                            THEN /\ joinPoint' = [joinPoint EXCEPT ![g][name] =
                                                     Cardinality(DOMAIN boards[g])]
                                 /\ \E k \in OutcomeInLock(targets \cup {e.sock}, "Added") :
                                       /\ Finish(t, "loop", verb, k, info)
                                       /\ sent' \in Writes(order, k, "Added")
                            ELSE \* len(self.boards[group]) raises KeyError
                                 /\ joinPoint' = [joinPoint EXCEPT ![g][name] = 0]
                                 /\ Finish(t, "crashed", verb, "KeyError", info)
                                 /\ sent' \in Writes(SubSeq(order, 1, Len(order) - 1),
                                                     "KeyError", "KeyError")

\* an id assignment that skips one id: a deviation from line 295 against
\* which C1 is measured
NextMessageIdSkipping(board) == Cardinality(DOMAIN board) + 1

\* message_id = len(self.boards[group]), line 295
NextMessageId(board) == Cardinality(DOMAIN board)

\* self.boards[group][message_id] = {...}, line 296
StoreMessage(bds, g, m) ==
    [bds EXCEPT ![g] = (NextMessageId(@) :> m) @@ @]

\* a post that stores without the membership test of lines 290-292: a
\* deviation against which C10 is measured
BoardsAfterPostUnchecked(bds, grps, g, name, subject, body) ==
    StoreMessage(bds, g, NewMessage(name, Today, subject, body, grps[g]))

\* self.boards after handle_post by `name`, lines 290-302
BoardsAfterPost(bds, grps, g, name, subject, body) ==
    IF name \in Range(grps[g])
    THEN StoreMessage(bds, g, NewMessage(name, Today, subject, body, grps[g]))
    ELSE bds

(***************************************************************************)
(* handle_post, lines 285-306, under the lock.  `body` is the list of      *)
(* words " ".join(message) joins; split(" ") and " ".join are inverse on   *)
(* word lists, so the list stands for the joined string.                   *)
(***************************************************************************)
handle_post(t, verb, g, subject, body) ==
    /\ LockFree
    /\ UNCHANGED <<client_ids, connected_clients, groups, sockState, req,
                   joinPoint, hasLeft>>
    /\ IF ~HasId(connected_clients, local[t].id) \/ g \notin DOMAIN groups
       THEN /\ Finish(t, "crashed", verb, "KeyError", KeyInfo(g))
            /\ sent' = NoWrites
            /\ UNCHANGED <<boards, posted>>
       ELSE LET e == Entry(connected_clients, local[t].id)
                name == e.name
            IN  IF name \notin Range(groups[g])
                THEN /\ boards' = BoardsAfterPost(boards, groups, g, name, subject, body)
                     /\ UNCHANGED posted
                     /\ \E k \in OutcomeInLock({e.sock}, "NotMember") :
                           /\ Finish(t, "loop", verb, k, Info(name, g, "", -1, NoText))
                           /\ sent' \in Writes(<<e.sock>>, k, "NotMember")
                ELSE IF g \notin DOMAIN boards
                THEN /\ Finish(t, "crashed", verb, "KeyError", NoInfo)
                     /\ sent' = NoWrites
                     /\ UNCHANGED <<boards, posted>>
                ELSE /\ boards' = BoardsAfterPost(boards, groups, g, name, subject, body)
                     /\ posted' = [posted EXCEPT ![g] = @ + 1]
                     /\ \E k \in OutcomeInLock(Socks(connected_clients,
                                            LAMBDA o : o.name \in Range(groups[g])),
                                        "Posted") :
                           /\ Finish(t, "loop", verb, k,
                                     Info(name, g, "", NextMessageId(boards[g]), NoText))
                           \* lines 304-306
                           /\ sent' \in Writes(SockSeq(SelectSeq(connected_clients,
                                      LAMBDA o : o.name \in Range(groups[g]))),
                                              k, "Posted")

\* self.groups after handle_leave by `name`, lines 344-349
GroupsAfterLeave(grps, g, name) ==
    IF name \in Range(grps[g])
    THEN [grps EXCEPT ![g] = RemoveFirst(@, name)]
    ELSE grps

(***************************************************************************)
(* handle_leave, lines 337-355, under the lock.                            *)
(***************************************************************************)
handle_leave(t, verb, g) ==
    /\ LockFree
    /\ UNCHANGED <<client_ids, connected_clients, boards, sockState, req,
                   posted>>
    /\ IF ~HasId(connected_clients, local[t].id) \/ g \notin DOMAIN groups
       THEN /\ Finish(t, "crashed", verb, "KeyError", KeyInfo(g))
            /\ sent' = NoWrites
            /\ UNCHANGED <<groups, joinPoint, hasLeft>>
       ELSE LET e == Entry(connected_clients, local[t].id)
                name == e.name
                grps == GroupsAfterLeave(groups, g, name)
                info == Info(name, g, "", -1, NoText)
            IN  /\ groups' = grps
                /\ joinPoint' = IF grps # groups
                                THEN [joinPoint EXCEPT ![g][name] = -1]
                                ELSE joinPoint
                /\ hasLeft' = IF grps # groups
                              THEN [hasLeft EXCEPT ![g] = @ \cup {name}]
                              ELSE hasLeft
                /\ IF name \notin Range(groups[g])
                   THEN \E k \in OutcomeInLock({e.sock}, "NotMember") :
                           /\ Finish(t, "loop", verb, k, info)
                           /\ sent' \in Writes(<<e.sock>>, k, "NotMember")
                   ELSE \E k \in OutcomeInLock({e.sock} \cup
                                         Socks(connected_clients,
                                               LAMBDA o : o.name \in Range(grps[g])),
                                         "Left") :
                           /\ Finish(t, "loop", verb, k, info)
                           \* the reply of line 350, then lines 353-355
                           /\ sent' \in Writes(<<e.sock>> \o
                                  SockSeq(SelectSeq(connected_clients,
                                      LAMBDA o : o.name \in Range(grps[g]))),
                                              k, "Left")

\* int(message_id) succeeds on a digit string and raises ValueError otherwise
IsInt(tok) == tok \in DOMAIN DigitVal
IntOf(tok) == DigitVal[tok]

\* self.boards[group][int(message_id)] does not raise, line 320
MessageExists(bds, g, tok) ==
    g \in DOMAIN bds /\ IsInt(tok) /\ IntOf(tok) \in DOMAIN bds[g]

\* the test of lines 322-324: the inner test repeats the outer one
Visible(name, m) ==
    IF name \notin Range(m.users_at_time_of_posting)
    THEN name \in Range(m.users_at_time_of_posting)
    ELSE TRUE

\* the response handle_message chooses, lines 319-335
MessageAnswer(bds, g, tok, name) ==
    IF ~MessageExists(bds, g, tok) THEN "NotFound"
    ELSE IF Visible(name, bds[g][IntOf(tok)]) THEN "Content"
    ELSE "Forbidden"

\* f"{sender} on {date} ({subject}): {message}"
MessageText(m) == <<m.sender, m.date, m.subject, m.message>>

(***************************************************************************)
(* handle_message, lines 308-316, without the lock: the registry entry is  *)
(* read and the membership of the caller is tested.                        *)
(***************************************************************************)
handle_message(t, verb, g) ==
    /\ UNCHANGED <<shared, sockState, joinPoint, hasLeft, posted>>
    /\ IF ~HasId(connected_clients, local[t].id) \/ g \notin DOMAIN groups
       THEN /\ Finish(t, "crashed", verb, "KeyError", KeyInfo(g))
            /\ sent' = NoWrites
            /\ UNCHANGED req
       ELSE LET e == Entry(connected_clients, local[t].id)
                info == Info(e.name, g, "", -1, NoText)
            IN  IF e.name \notin Range(groups[g])
                THEN /\ UNCHANGED req
                     /\ \E k \in Outcome({e.sock}, "NotMember") :
                           /\ Finish(t, "loop", verb, k, info)
                           /\ sent' \in Writes(<<e.sock>>, k, "NotMember")
                ELSE /\ req' = [req EXCEPT ![t] = [group |-> g, name |-> e.name,
                                                   sock |-> e.sock]]
                     /\ Finish(t, "message", verb, "Checked", info)
                     /\ sent' = NoWrites

(***************************************************************************)
(* handle_message, lines 318-335: the board is read and the answer sent.   *)
(* message_id is an argument nothing reads before line 320, so the model  *)
(* draws it here.                                                          *)
(* A send that raises inside the try is caught, the except branch sends    *)
(* again on the same socket and that send raises out of the handler.       *)
(***************************************************************************)
MessageLookup(t) ==
    /\ pc[t] = "message"
    /\ \E tok \in IdTokens :
          LET r == req[t]
              answer == MessageAnswer(boards, r.group, tok, r.name)
              text == IF answer = "Content"
                      THEN MessageText(boards[r.group][IntOf(tok)]) ELSE NoText
          IN  \E k \in Outcome({r.sock}, answer) :
                 /\ Finish(t, "loop", "message", k,
                           Info(r.name, r.group, tok, -1,
                                IF k = answer THEN text ELSE NoText))
                 /\ sent' \in Writes(<<r.sock>>, k, answer)
    /\ req' = [req EXCEPT ![t] = NoReq]
    /\ UNCHANGED <<shared, sockState, joinPoint, hasLeft, posted>>
    /\ UNCHANGED nreq

(***************************************************************************)
(* Requests: the parameter lists data.split(" ")[1:] can give.             *)
(***************************************************************************)
PostParams ==
    {<<>>, <<"s1">>} \cup {<<s, w>> : s \in Subjects, w \in Words}
\* the id tokens of a message request are drawn where they are read
IdParam == "id"
MessageParams ==
    {<<>>, <<IdParam>>, <<IdParam, IdParam>>}
GroupParams ==
    {<<>>} \cup {<<g>> : g \in GroupNames}
GroupJoinParams ==
    GroupParams \cup {<<"default", "default">>}
GroupPostParams ==
    {<<>>, <<"default">>, <<"default", "s1">>}
        \cup {<<g, s, w>> : g \in GroupNames, s \in Subjects, w \in Words}
GroupMessageParams ==
    {<<>>, <<"default">>, <<"default", IdParam, IdParam>>}
        \cup {<<g, IdParam>> : g \in GroupNames}

\* case "help", "users", "groups" and case _: one write on the own socket
CmdHelp(t) == Recv(t) /\ Reply(t, "loop", "help", "Help")
CmdUsers(t) ==
    /\ Recv(t)
    /\ IF "default" \in DOMAIN groups THEN Reply(t, "loop", "users", "Users")
       ELSE Raise(t, "users", "KeyError")
CmdGroups(t) == Recv(t) /\ Reply(t, "loop", "groups", "Groups")
CmdInvalid(t) == Recv(t) /\ Reply(t, "loop", "invalid", "Invalid")

\* case "join", line 138
CmdJoin(t) == Recv(t) /\ handle_join(t, "join", "default")

\* where the dispatch loop goes after it answered a malformed request:
\* the `break` of lines 142, 152, 172, 178, 183, 187, 193, 198 leaves the loop
AfterParamError == "ended"

\* case "post", lines 140-143
CmdPost(t) ==
    /\ Recv(t)
    /\ \E p \in PostParams :
          IF Len(p) < 2 THEN Reply(t, AfterParamError, "post", "ParamError")
          ELSE handle_post(t, "post", "default", p[1], Tail(p))

\* case "leave", line 148
CmdLeave(t) == Recv(t) /\ handle_leave(t, "leave", "default")

\* case "message", lines 150-153; more than one parameter is a TypeError
\* at the call of handle_message
CmdMessage(t) ==
    /\ Recv(t)
    /\ \E p \in MessageParams :
          IF Len(p) < 1 THEN Reply(t, AfterParamError, "message", "ParamError")
          ELSE IF Len(p) > 1 THEN Raise(t, "message", "TypeError")
          ELSE handle_message(t, "message", "default")

\* case "groupjoin", lines 170-174
CmdGroupJoin(t) ==
    /\ Recv(t)
    /\ \E p \in GroupJoinParams :
          IF Len(p) # 1 THEN Reply(t, AfterParamError, "groupjoin", "ParamError")
          ELSE handle_join(t, "groupjoin", p[1])

\* case "grouppost", lines 176-179
CmdGroupPost(t) ==
    /\ Recv(t)
    /\ \E p \in GroupPostParams :
          IF Len(p) < 3 THEN Reply(t, AfterParamError, "grouppost", "ParamError")
          ELSE handle_post(t, "grouppost", p[1], p[2], SubSeq(p, 3, Len(p)))

\* case "groupusers", lines 181-189: tests the thread's own client_name
CmdGroupUsers(t) ==
    /\ Recv(t)
    /\ \E p \in GroupParams :
          IF Len(p) < 1 THEN Reply(t, AfterParamError, "groupusers", "ParamError")
          ELSE IF p[1] \notin DOMAIN groups
          THEN Reply(t, "ended", "groupusers", "InvalidGroup")
          ELSE IF local[t].name \notin Range(groups[p[1]])
          THEN Reply(t, "ended", "groupusers", "NotMember")
          ELSE Reply(t, "loop", "groupusers", "Users")

\* case "groupleave", lines 191-194
CmdGroupLeave(t) ==
    /\ Recv(t)
    /\ \E p \in GroupParams :
          IF Len(p) < 1 THEN Reply(t, AfterParamError, "groupleave", "ParamError")
          ELSE IF p[1] \notin DOMAIN groups
          THEN Reply(t, "ended", "groupleave", "InvalidGroup")
          ELSE handle_leave(t, "groupleave", p[1])

\* case "groupmessage", lines 196-199; more than two parameters is a
\* TypeError at the call of handle_message
CmdGroupMessage(t) ==
    /\ Recv(t)
    /\ \E p \in GroupMessageParams :
          IF Len(p) < 2 THEN Reply(t, AfterParamError, "groupmessage", "ParamError")
          ELSE IF Len(p) > 2 THEN Raise(t, "groupmessage", "TypeError")
          ELSE handle_message(t, "groupmessage", p[1])

(***************************************************************************)
(* case "exit", lines 156-159, without the lock: the farewell on the own   *)
(* socket, then the socket of the registry entry is closed.                *)
(***************************************************************************)
CmdExit(t) ==
    /\ Recv(t)
    /\ IF sockState[t] = "stalled"
       THEN /\ Finish(t, "exiting", "exit", "Blocked", NoInfo)
            /\ sent' = [ok |-> Accepted(<<>>), failed |-> t]
            /\ UNCHANGED sockState
       ELSE IF sockState[t] = "closed" \/ ~HasId(connected_clients, local[t].id)
       THEN /\ Finish(t, "crashed", "exit",
                      IF sockState[t] = "closed" THEN "OSError" ELSE "KeyError", NoInfo)
            \* the farewell of line 156 precedes the registry read of line 159
            /\ sent' = IF sockState[t] = "closed"
                       THEN [ok |-> Accepted(<<>>), failed |-> t]
                       ELSE [ok |-> Accepted(<<t>>), failed |-> 0]
            /\ UNCHANGED sockState
       ELSE /\ sockState' = [sockState EXCEPT
                                ![Entry(connected_clients, local[t].id).sock] = "closed"]
            /\ Finish(t, "exiting", "exit", "Bye", NoInfo)
            /\ sent' = [ok |-> Accepted(<<t>>), failed |-> 0]
    /\ UNCHANGED <<shared, req, joinPoint, hasLeft, posted>>

\* lines 161-163: self.connected_clients.pop(client_id); return 0
ExitPop(t) ==
    /\ pc[t] = "exiting"
    /\ IF HasId(connected_clients, local[t].id)
       THEN /\ connected_clients' = PopEntry(connected_clients, local[t].id)
            /\ Finish(t, "closed", "exit", "Closed", NoInfo)
       ELSE /\ UNCHANGED connected_clients
            /\ Finish(t, "crashed", "exit", "KeyError", NoInfo)
    /\ sent' = NoWrites
    /\ UNCHANGED <<client_ids, groups, boards, sockState, req, joinPoint, hasLeft, posted>>
    /\ UNCHANGED nreq

\* lines 114-116: the client went away, recv returns b"" and the loop ends
Disconnect(t) ==
    /\ pc[t] = "loop"
    /\ sockState[t] = "open"
    /\ sockState' = [sockState EXCEPT ![t] = "peer_closed"]
    /\ Finish(t, "ended", "recv", "Disconnected", NoInfo)
    /\ sent' = NoWrites
    /\ UNCHANGED <<shared, req, joinPoint, hasLeft, posted>>
    /\ UNCHANGED nreq

\* line 114: recv on a socket another thread's exit has closed raises OSError
RecvFail(t) ==
    /\ pc[t] = "loop"
    /\ sockState[t] = "closed"
    /\ Raise(t, "recv", "OSError")
    /\ UNCHANGED nreq

Next ==
    \E t \in Threads :
        \/ Connect(t)
        \/ add_clients_groups(t)
        \/ broadcast_client_join(t)
        \/ SendId(t)
        \/ CmdHelp(t)
        \/ CmdUsers(t)
        \/ CmdGroups(t)
        \/ CmdInvalid(t)
        \/ CmdJoin(t)
        \/ CmdGroupJoin(t)
        \/ CmdPost(t)
        \/ CmdGroupPost(t)
        \/ CmdLeave(t)
        \/ CmdGroupLeave(t)
        \/ CmdGroupUsers(t)
        \/ CmdMessage(t)
        \/ CmdGroupMessage(t)
        \/ MessageLookup(t)
        \/ CmdExit(t)
        \/ ExitPop(t)
        \/ Disconnect(t)
        \/ RecvFail(t)

Spec == Init /\ [][Next]_vars

(***************************************************************************)
(* server_shutdown and the server_startup of the next run.  The signal     *)
(* handler runs in the main thread without the lock, so the workers go on  *)
(* between its two json.dump calls; sys.exit ends the daemon threads.      *)
(***************************************************************************)
\* number of requests read in a run that is followed to its shutdown
ShutdownReqs == 2

\* str(k): the key json.dump writes for the int key k
StrOf(i) == CHOOSE d \in DOMAIN DigitVal : DigitVal[d] = i

\* the isoformat() string default_serializer (lines 28-32) writes for the
\* date object of this run
TodayIso == "iso-today"

\* json.dump of a 'date' value: a date object through default_serializer, a
\* string loaded from the previous boards.json as it is
JsonDate(d) == IF d = Today THEN TodayIso ELSE d

\* json.dump(self.groups), line 41: str keys and lists of str, written as
\* they are
DumpGroups(grps) == [g \in DOMAIN grps |-> grps[g]]

\* json.dump(self.boards), line 43: int keys become strings, dates strings
DumpBoards(bds) ==
    [g \in DOMAIN bds |->
        [k \in {StrOf(i) : i \in DOMAIN bds[g]} |->
            [bds[g][IntOf(k)] EXCEPT !.date = JsonDate(@)]]]

\* json.load of groups.json, line 59
LoadGroups(js) == [g \in DOMAIN js |-> js[g]]

\* a load that shifts every message id by one: a deviation from line 65
\* against which C16 is measured
LoadBoardsShifted(js) ==
    [g \in DOMAIN js |->
        [i \in {IntOf(k) + 1 : k \in DOMAIN js[g]} |-> js[g][StrOf(i - 1)]]]

\* json.load of boards.json and the key conversion {int(k): v}, lines 61-65
LoadBoards(js) ==
    [g \in DOMAIN js |->
        [i \in {IntOf(k) : k \in DOMAIN js[g]} |-> js[g][StrOf(i)]]]

\* lines 40-41: groups.json is written
ShutdownGroups ==
    /\ files.phase = "running"
    /\ files' = [files EXCEPT !.phase = "groups", !.groups = DumpGroups(groups)]
    /\ last' = [t |-> 0, verb |-> "shutdown", kind |-> "GroupsSaved", info |-> NoInfo]
    /\ sent' = NoWrites
    /\ UNCHANGED <<shared, sockState, pc, local, req, joinPoint, hasLeft, posted, iter,
                   nreq>>

\* lines 42-45: boards.json is written and the process exits; self.groups and
\* self.boards keep the values the process ended with
ShutdownBoards ==
    /\ files.phase = "groups"
    /\ files' = [files EXCEPT !.phase = "down", !.boards = DumpBoards(boards)]
    /\ pc' = [t \in Threads |-> "killed"]
    /\ local' = [t \in Threads |-> NoLocal]
    /\ req' = [t \in Threads |-> NoReq]
    /\ iter' = [t \in Threads |-> NoIter]
    /\ connected_clients' = <<>>
    /\ last' = [t |-> 0, verb |-> "shutdown", kind |-> "BoardsSaved", info |-> NoInfo]
    /\ sent' = NoWrites
    /\ UNCHANGED <<client_ids, groups, boards, sockState, joinPoint, hasLeft, posted, nreq>>

\* Server.__init__ (lines 17-26) and server_startup (lines 56-65) of the
\* next run; the run after the restart is a run from Init
Restart ==
    /\ files.phase = "down"
    /\ files' = [files EXCEPT !.phase = "restarted"]
    /\ client_ids' = 0
    /\ groups' = LoadGroups(files.groups)
    /\ boards' = LoadBoards(files.boards)
    /\ last' = [t |-> 0, verb |-> "startup", kind |-> "Loaded", info |-> NoInfo]
    /\ sent' = NoWrites
    /\ UNCHANGED <<connected_clients, sockState, pc, local, req, joinPoint, hasLeft,
                   posted, iter, nreq>>

\* a run of at most ShutdownReqs requests that ends in a shutdown and a restart
PersistNext ==
    \/ /\ files.phase \in {"running", "groups"}
       /\ Next
       /\ nreq' <= ShutdownReqs
    \/ ShutdownGroups
    \/ ShutdownBoards
    \/ Restart

PersistSpec == Init /\ [][PersistNext]_vars

(***************************************************************************)
(* A client that stops reading.  The sockets accept() returns are blocking *)
(* and the server sets no timeout, so once the send buffer of such a       *)
(* connection is full every send on it waits for the client.               *)
(***************************************************************************)
\* number of requests read in a run in which a client may stop reading
StallReqs == 2

\* the client of connection t stops reading; one connection of a run does
Stall(t) ==
    /\ pc[t] # "idle"
    /\ sockState[t] = "open"
    /\ \A u \in Threads : sockState[u] # "stalled"
    /\ sockState' = [sockState EXCEPT ![t] = "stalled"]
    /\ last' = [t |-> t, verb |-> "stall", kind |-> "Stalled", info |-> NoInfo]
    /\ sent' = NoWrites
    /\ UNCHANGED <<shared, pc, local, req, joinPoint, hasLeft, posted, files, iter,
                   nreq>>

\* a run of at most StallReqs requests in which a client may stop reading
StallNext ==
    \/ Next /\ nreq' <= StallReqs
    \/ \E t \in Threads : Stall(t)

StallSpec == Init /\ [][StallNext]_vars

(***************************************************************************)
(* The broadcast loop of broadcast_client_join, step by step.  The loop    *)
(* runs inside `with self.lock`, but the pop of the exit command (line     *)
(* 161) takes no lock, so it can run between two next() calls of the       *)
(* loop's dict iterator; next() raises RuntimeError when len(dict) is not  *)
(* what it was when the iterator was created.                              *)
(***************************************************************************)
\* number of requests read in a run whose broadcast loop is followed step by step
RaceReqs == 2

\* lines 242-251: the lock is taken, the iterator is created and the loop
\* has handled the first n entries when another thread gets to run
IterBegin(t) ==
    /\ pc[t] = "registered"
    /\ LockFree
    /\ \E n \in 0..Len(connected_clients) :
          LET done == SockSeq(SelectSeq(SubSeq(connected_clients, 1, n),
                                        LAMBDA e : e.id # local[t].id))
          IN  /\ \A s \in Range(done) : sockState[s] \notin {"closed", "stalled"}
              /\ iter' = [iter EXCEPT ![t] = [used |-> Len(connected_clients),
                                              pos |-> n]]
              /\ sent' = [ok |-> Accepted(done), failed |-> 0]
    /\ pc' = [pc EXCEPT ![t] = "iterating"]
    /\ last' = [t |-> t, verb |-> "connect", kind |-> "Iterating", info |-> NoInfo]
    /\ UNCHANGED <<shared, sockState, local, req, joinPoint, hasLeft, posted, files,
                   nreq>>

\* line 247, the next call of next(): RuntimeError if the dict has changed
\* size, otherwise the rest of the loop
IterEnd(t) ==
    /\ pc[t] = "iterating"
    /\ LET rest == SockSeq(SelectSeq(SubSeq(connected_clients, iter[t].pos + 1,
                                            Len(connected_clients)),
                                     LAMBDA e : e.id # local[t].id))
           kinds == IF Len(connected_clients) # iter[t].used
                    THEN {"RuntimeError"}
                    ELSE OutcomeInLock(Range(rest), "Announced")
       IN  \E k \in kinds :
              /\ pc' = [pc EXCEPT ![t] = After(k, "announced")]
              /\ local' = IF After(k, "announced") \in Terminal
                          THEN [local EXCEPT ![t] = NoLocal] ELSE local
              /\ last' = [t |-> t, verb |-> "connect", kind |-> k, info |-> NoInfo]
              /\ sent' \in IF k = "RuntimeError" THEN {NoWrites}
                           ELSE Writes(rest, k, "Announced")
    /\ iter' = [iter EXCEPT ![t] = NoIter]
    /\ UNCHANGED <<shared, sockState, req, joinPoint, hasLeft, posted, files, nreq>>

\* a run of at most RaceReqs requests in which the loop of
\* broadcast_client_join may also be interleaved with other threads
RaceNext ==
    \/ Next /\ nreq' <= RaceReqs
    \/ \E t \in Threads : IterBegin(t)
    \/ \E t \in Threads : IterEnd(t)

RaceSpec == Init /\ [][RaceNext]_vars

(***************************************************************************)
(* A run that may find groups.json without boards.json.                    *)
(***************************************************************************)
OrphanInit == InitFrom({FreshState, OrphanState})

OrphanSpec == OrphanInit /\ [][Next]_vars

(***************************************************************************)
(* Properties.  `last` describes the step that led to the current state,   *)
(* so an invariant over `last` speaks about the state right after a        *)
(* handler ran.                                                            *)
(***************************************************************************)
\* the step just taken was handle_message's board lookup (lines 318-335)
LookupDone == last.verb = "message" /\ last.info.id # ""
LookupName == last.info.name
LookupGroup == last.info.group
LookupTok == last.info.id
LookupExists == MessageExists(boards, LookupGroup, LookupTok)
LookupId == IntOf(LookupTok)
LookupMsg == boards[LookupGroup][LookupId]
LookupJoinPoint == joinPoint[LookupGroup][LookupName]
\* the caller was not in the group when the requested message was posted
LookupAbsentAtPost == LookupName \notin Range(LookupMsg.users_at_time_of_posting)
LookupGotContent == last.kind = "Content" /\ last.info.text = MessageText(LookupMsg)

\* C1: every board holds exactly the message ids 0 .. N-1 after N stored
\* posts: no id is given twice, none is skipped, no message is overwritten.
C1_GaplessIds ==
    \A g \in DOMAIN boards : DOMAIN boards[g] = 0..(posted[g] - 1)

\* C1 witness: a board of this run holds two messages of different senders
C1_Witness ==
    \E g \in DOMAIN boards :
        /\ {0, 1} \subseteq DOMAIN boards[g]
        /\ boards[g][0].sender \in Names
        /\ boards[g][1].sender \in Names
        /\ boards[g][0].sender # boards[g][1].sender

\* positions at which a thread has registered its session and still runs
Live == {"registered", "announced", "loop", "message", "exiting"}

\* C2: two sessions never hold the same session id (so no registration
\* overwrites the registry entry of another live session).
C2_UniqueSessionIds ==
    \A t1, t2 \in Threads :
        (t1 # t2 /\ pc[t1] \in Live /\ pc[t2] \in Live)
            => local[t1].id # local[t2].id

\* C3: a member who joined at join point J and was absent when message i was
\* posted reads i when J-2 <= i < J.
C3_CatchUpReadable ==
    (/\ LookupDone /\ LookupExists
     /\ LookupJoinPoint >= 0
     /\ LookupAbsentAtPost
     /\ LookupId >= LookupJoinPoint - 2 /\ LookupId < LookupJoinPoint)
        => LookupGotContent

\* C4: a member who joined at join point J and was absent when message
\* i < J-2 was posted is answered Forbidden and gets no content.
C4_FarPastForbidden ==
    (/\ LookupDone /\ LookupExists
     /\ LookupJoinPoint >= 0
     /\ LookupAbsentAtPost
     /\ LookupId < LookupJoinPoint - 2)
        => last.kind = "Forbidden" /\ last.info.text = NoText

\* C5: a message posted while the caller was a member of the group is
\* returned to the caller whenever the caller asks for it as a member.
C5_PostedWhileMemberReadable ==
    (LookupDone /\ LookupExists /\ ~LookupAbsentAtPost) => LookupGotContent

\* C6: after leave and rejoin, of the messages posted in the caller's absence
\* exactly those with J-2 <= i < J are readable, J the join point of the rejoin.
C6_RejoinWindow ==
    (/\ LookupDone /\ LookupExists
     /\ LookupName \in hasLeft[LookupGroup]
     /\ LookupJoinPoint >= 0
     /\ LookupName \in Range(groups[LookupGroup])
     /\ LookupAbsentAtPost
     /\ LookupId < LookupJoinPoint)
        => (LookupGotContent <=> LookupId >= LookupJoinPoint - 2)

\* C7: a stored message never changes and is never removed, and a message
\* enters a board with the member list its group has at that step.
C7_MessagesImmutable ==
    [][\A g \in DOMAIN boards :
          /\ g \in DOMAIN boards'
          /\ \A i \in DOMAIN boards[g] :
                i \in DOMAIN boards'[g] /\ boards'[g][i] = boards[g][i]
          /\ \A i \in DOMAIN boards'[g] \ DOMAIN boards[g] :
                /\ g \in DOMAIN groups
                /\ boards'[g][i].users_at_time_of_posting = groups[g]
                /\ groups'[g] = groups[g]]_vars

\* C7 witness: a message of this run whose snapshot differs from the member
\* list its group has now
C7_Witness ==
    \E g \in DOMAIN boards : \E i \in DOMAIN boards[g] :
        /\ boards[g][i].sender \in Names
        /\ boards[g][i].users_at_time_of_posting # groups[g]

\* C8: a member's request for an id that is not in the board is answered
\* NotFound (not Forbidden) and the session goes on.
C8_NotFound ==
    (LookupDone /\ ~LookupExists)
        => last.kind = "NotFound" /\ pc[last.t] = "loop"

\* C9: a request with a malformed parameter count is answered with an error
\* and the dispatch loop goes on.
C9_MalformedKeepsSession ==
    last.kind = "ParamError" => pc[last.t] = "loop"

\* answers that reject a request: wrong parameter count, unknown group
\* (answered, or the KeyError of self.groups[group]), caller not a member
Rejected(l) ==
    \/ l.kind \in {"ParamError", "InvalidGroup", "NotMember"}
    \/ l.kind = "KeyError" /\ l.info.group # "" /\ l.info.group \notin DOMAIN groups

\* C10: a rejected request leaves the Group Directory and the Board Store
\* as they were.
C10_RejectionFrame ==
    [][Rejected(last') => (groups' = groups /\ boards' = boards)]_vars

\* C10 witness: a member-only request was rejected while a board held a message
C10_Witness ==
    /\ last.kind = "NotMember"
    /\ \E g \in DOMAIN boards : boards[g] # EmptyBoard
    /\ \E g \in DOMAIN groups : groups[g] # <<>>

\* C11: a grouppost or groupmessage naming a group that is not in the Group
\* Directory is answered with an error and the session's loop goes on.
C11_UnknownGroupAnswered ==
    (/\ last.verb \in {"grouppost", "groupmessage"}
     /\ last.info.group # ""
     /\ last.info.group \notin DOMAIN groups)
        => (last.kind = "InvalidGroup" /\ pc[last.t] = "loop")

\* C12: an ended session leaves no entry in the Session Registry.  Only the
\* thread of a session removes its entry (line 161), so once every thread has
\* returned or died the registry is empty.
C12_NoStaleEntries ==
    (\A t \in Threads : pc[t] \in Terminal) => connected_clients = <<>>

\* verbs whose handling runs a broadcast loop (lines 247-251, 269-271,
\* 304-306, 353-355)
BroadcastVerbs ==
    {"connect", "join", "groupjoin", "post", "grouppost", "leave", "groupleave"}

\* the step just taken was a broadcasting handler of a session that is
\* registered with its own socket, and a send to another session's socket raised
BroadcastTargetFailed ==
    /\ last.verb \in BroadcastVerbs
    /\ \E i \in 1..Len(connected_clients) : connected_clients[i].sock = last.t
    /\ sent.failed \notin {0, last.t}

\* C13: a write failure at a broadcast target does not reach the acting
\* caller: the caller's thread goes on.
C13_BroadcastFailureContained ==
    BroadcastTargetFailed => pc[last.t] \notin Terminal

\* the acting session of the step just taken is in the registry with its
\* own socket
ActingRegistered ==
    \E i \in 1..Len(connected_clients) : connected_clients[i].sock = last.t

\* the registered sessions other than the acting one whose username is a
\* member of group g
OtherMemberSocks(g) ==
    {connected_clients[i].sock : i \in
        {j \in 1..Len(connected_clients) :
            /\ connected_clients[j].sock # last.t
            /\ connected_clients[j].name \in Range(groups[g])}}

\* C14: a join, post or leave writes its notification once to every other
\* registered session whose username is a member of the group, and the acting
\* session gets no write from the broadcast loop: it gets the one reply join
\* (line 283) and leave (line 350) send outside the loop, and none from post,
\* whose only sends are those of its loop.
C14_BroadcastTargets ==
    (last.kind \in {"Added", "Posted", "Left"} /\ ActingRegistered)
        => \A s \in Threads :
              sent.ok[s] = IF s = last.t
                           THEN (IF last.kind = "Posted" THEN 0 ELSE 1)
                           ELSE (IF s \in OtherMemberSocks(last.info.group)
                                 THEN 1 ELSE 0)

\* C15: the handshake reply carries the session id and at most 5 group
\* names, and ends with '...' exactly when the Group Directory holds more
\* than 5 groups.
C15_HandshakeReply ==
    last.kind = "Id" =>
        LET reply == last.info.text
            names == {i \in 1..Len(reply) : reply[i] = "group"}
        IN  /\ reply[1] = "id"
            /\ last.info.mid >= 0
            /\ Cardinality(names) <= 5
            /\ (reply[Len(reply)] = "...") <=> (Cardinality(DOMAIN groups) > 5)

\* the fields of a message the round trip keeps
Kept(m) == [sender |-> m.sender, subject |-> m.subject, message |-> m.message,
            users_at_time_of_posting |-> m.users_at_time_of_posting]

C17_GroupsOnlyGrow ==
    [][/\ "default" \in DOMAIN groups
       /\ "default" \in DOMAIN groups'
       /\ DOMAIN groups \subseteq DOMAIN groups']_vars

\* C17 witness: a group created in this run is still in the directory after
\* its last member has left it
C17_Witness ==
    /\ "club" \in DOMAIN groups
    /\ groups["club"] = <<>>
    /\ hasLeft["club"] # {}
    /\ last.kind = "Left"

\* outcomes with which the handling of a request ends in an answer
AnswerKinds ==
    {"Help", "Users", "Groups", "Invalid", "Already", "NotMember", "ParamError",
     "InvalidGroup", "AddedNew", "Added", "Posted", "Left", "Content",
     "Forbidden", "NotFound", "Bye"}

\* the step just taken ended the handling of a request the dispatch loop of
\* last.t had read: with an answer, or with an exception of the handler call
RequestHandled ==
    \/ last.kind \in AnswerKinds
    \/ /\ last.kind \in {"KeyError", "TypeError"}
       /\ last.verb \notin {"connect", "recv", "exit"}

\* C18: the handling of a request writes exactly one response to the
\* connection of the session that sent it.
C18_OneResponse ==
    RequestHandled => sent.ok[last.t] = 1

\* the step just taken ran a broadcast loop that reached the socket of
\* another session whose client has stopped reading
BroadcastTargetStalled ==
    /\ last.verb \in BroadcastVerbs
    /\ sent.failed \notin {0, last.t}
    /\ sockState[sent.failed] = "stalled"

\* C19: a broadcast that reaches a connection that accepts no write does not
\* keep its caller: the caller does not wait in the send holding the lock,
\* and the lock is free for the join, post, leave and connect of every other
\* session.
C19_BroadcastNeverBlocks ==
    BroadcastTargetStalled => (pc[last.t] # "stuck_in_lock" /\ LockFree)

\* C20: the reads and writes of the registry, the groups and the boards
\* that must be consistent with each other happen under the lock; in
\* particular the exit command removes its registry entry only while no
\* other thread is inside the loop of a broadcast over the registry.
C20_ExitPopOutsideBroadcast ==
    [][(last'.verb = "exit" /\ last'.kind = "Closed"
            /\ connected_clients' # connected_clients)
          => \A t \in Threads : pc[t] # "iterating"]_vars

\* the step being taken ran handle_join to its reply for the session of
\* thread last'.t
JoinVerbs == {"join", "groupjoin"}
JoinReplied ==
    /\ last'.verb \in JoinVerbs
    /\ last'.kind \in {"AddedNew", "Added", "OSError"}

\* C21: a join of a group that is not in the Group Directory creates it with
\* the caller as only member and an empty board; a join by a member is
\* answered 'already' and changes neither groups nor boards; any other join
\* appends the caller to the group and changes nothing else.
C21_JoinEffect ==
    [][/\ last'.kind = "Already" => (groups' = groups /\ boards' = boards)
       /\ JoinReplied =>
            LET n == local[last'.t].name
                g == last'.info.group
            IN  IF g \notin DOMAIN groups
                THEN /\ last'.kind # "Added"
                     /\ groups' = groups @@ (g :> <<n>>)
                     /\ boards' = boards @@ (g :> EmptyBoard)
                ELSE IF n \in Range(groups[g])
                THEN /\ last'.kind = "OSError"
                     /\ groups' = groups
                     /\ boards' = boards
                ELSE /\ last'.kind # "AddedNew"
                     /\ groups' = [groups EXCEPT ![g] = Append(@, n)]
                     /\ boards' = boards]_vars

C23_NoDuplicateMembers ==
    \A g \in DOMAIN groups :
       \A i, j \in 1..Len(groups[g]) : groups[g][i] = groups[g][j] => i = j

\* C23 witness: two live sessions share the username alice, and alice has
\* just rejoined a group she had left
C23_Witness ==
    /\ pc[1] = "loop" /\ pc[2] = "loop"
    /\ local[1].name = "alice" /\ local[2].name = "alice"
    /\ last.kind = "Added"
    /\ last.info.name = "alice"
    /\ "alice" \in hasLeft[last.info.group]
    /\ "alice" \in Range(groups[last.info.group])

\* C24: once a session has completed its registration, every group of the
\* Group Directory has a board in the Board Store, whether the group was
\* created by a connect, by a join, or loaded from a groups file that has
\* no matching board.
C24_EveryGroupHasBoard ==
    client_ids > 0 => DOMAIN groups \subseteq DOMAIN boards

\* C24 witness: a message was posted to a group that was loaded from the
\* groups file without a board
C24_Witness ==
    /\ last.kind = "Posted"
    /\ last.info.group = "club"
    /\ SavedName \in Range(groups["club"])
    /\ boards["club"] # EmptyBoard

\* C25: the sender of every stored message is in the member snapshot the
\* message was stored with.
C25_SenderInSnapshot ==
    \A g \in DOMAIN boards :
       \A i \in DOMAIN boards[g] :
          boards[g][i].sender \in Range(boards[g][i].users_at_time_of_posting)

\* C25 witness: a post has just been stored for a group of two or more members
C25_Witness ==
    /\ last.kind = "Posted"
    /\ last.info.group \in DOMAIN boards
    /\ last.info.mid \in DOMAIN boards[last.info.group]
    /\ LET m == boards[last.info.group][last.info.mid]
       IN  /\ m.sender = last.info.name
           /\ m.date = Today
           /\ Len(m.users_at_time_of_posting) >= 2
=============================================================================
